---- MODULE Spec2Model ----
(***************************************************************************)
(* The goods service of src/main.go: five HTTP handlers over a relational  *)
(* store (table goods), a key-value cache and a notification publisher.    *)
(* Each in-flight request is a process that walks through the external     *)
(* calls of its handler one call per step, so that requests interleave at  *)
(* exactly the points where the Go handlers block on I/O.                  *)
(***************************************************************************)
EXTENDS Integers, Sequences, FiniteSets, TLC

VARIABLES
    goods,    \* the goods table: store-assigned id -> row
    nextId,   \* the next value of the id sequence
    cache,    \* the key-value cache: key -> entry or None
    proc,     \* per request in flight: where its handler is, and its locals
    created   \* history: the priorities stored by committed creates

vars == <<goods, nextId, cache, proc, created>>

(* ------------------------------ bounds --------------------------------- *)

\* Number of INSERT statements the store executes in one behaviour.
MaxInserts == 2

\* The concurrently handled requests (one goroutine per request).
Procs == {"r1", "r2"}

(* ----------------------------- constants ------------------------------- *)

\* redisCacheTime = time.Minute, in seconds.
redisCacheTime == 60

StatusOK == 200
StatusCreated == 201
StatusNoContent == 204
StatusBadRequest == 400
StatusInternalServerError == 500

\* The value of a column the INSERT statement does not name (project_id).
ColumnDefault == 0

None == [t |-> "none"]

(* --------------------------- request inputs ---------------------------- *)

\* A request body that json.Decoder rejects.
Malformed == [t |-> "malformed"]

\* The Goods struct as decoded from a request body; a field the body omits
\* keeps Go's zero value.  created_at plays no part in any handler decision
\* and is left out of the record.
Goods(id, project_id, name, description, priority, removed) ==
    [id |-> id, project_id |-> project_id, name |-> name,
     description |-> description, priority |-> priority, removed |-> removed]

\* {"name":"Widget","description":"d"}: every other field is omitted.
Widget == Goods(0, 0, "Widget", "d", 0, FALSE)

\* A body that sets every field, id and priority included.
Gadget == Goods(7, 3, "Gadget", "e", 5, TRUE)

\* Bodies sent to /good/create and to /good/update.
CreateBodies == {Widget, Gadget}

UpdateBodies == {Gadget}

\* The NewPriority struct as decoded from a reprioritize body.
NewPriority(n) == [newPriority |-> n]

\* Bodies sent to /goods/reprioritize.
PriorityBodies == { NewPriority(5) }

(* ------------------------------- JSON ---------------------------------- *)

\* json.Marshal of a Goods value: an object.
MarshalGood(g) == [t |-> "obj", v |-> g]

\* json.Marshal of a []Goods: a nil slice (no row was appended) encodes as
\* null, anything else as an array.  Arrays are modelled up to the order of
\* their elements, as sets.
MarshalGoods(s) == IF s = {} THEN [t |-> "null", v |-> {}]
                             ELSE [t |-> "arr", v |-> s]

\* Bytes that are no JSON encoding of a list of goods.
Garbage == [t |-> "garbage", v |-> {}]

\* json.Unmarshal into a []Goods succeeds on null and on an array of objects.
Parseable(doc) == doc.t \in {"null", "arr"}

UnmarshalGoods(doc) == IF doc.t = "arr" THEN doc.v ELSE {}

\* respondWithJSON: data is variadic, so the encoder receives the argument
\* list, a one-element slice, and encodes it as a one-element array whose
\* element is the encoding of the value passed (data, already encoded).
respondWithJSON(statusCode, data) ==
    [status |-> statusCode, body |-> [t |-> "arr", v |-> {data}]]

\* http.Error: plain-text error body.
httpError(statusCode) ==
    [status |-> statusCode, body |-> [t |-> "text", v |-> "error"]]

(* ------------------------------- store --------------------------------- *)

Max(S) == CHOOSE x \in S : \A y \in S : y <= x

\* Faulty variant: the number of goods taken for the maximum priority.
maxGoodsPriority_count(g) == Cardinality(DOMAIN g)

\* SELECT COALESCE(MAX(priority), 0) FROM goods
maxGoodsPriority(g) ==
    IF DOMAIN g = {} THEN 0 ELSE Max({g[i].priority : i \in DOMAIN g})

\* SELECT ... FROM goods has no ORDER BY, so the order of the rows scanned
\* into the []Goods is unspecified: a list of goods is modelled up to order,
\* as the set of its elements (ids make the rows of one table distinct).
SelectGoods(g) == {g[i] : i \in DOMAIN g}

\* INSERT INTO goods (name, description, priority, removed, created_at):
\* id comes from the sequence, project_id from the column default.
InsertStmt(good, id) ==
    [kind |-> "insert", ids |-> {id},
     row |-> Goods(id, ColumnDefault, good.name, good.description,
                   good.priority, good.removed)]

\* UPDATE goods SET name, description, priority, removed (no WHERE clause).
UpdateRow(old, good) ==
    Goods(old.id, old.project_id, good.name, good.description,
          good.priority, good.removed)

\* UPDATE goods SET priority = $1 (no WHERE clause).
ReprioritizeRow(old, p) ==
    Goods(old.id, old.project_id, old.name, old.description, p, old.removed)

\* The effect of a committed statement on the table.  An UPDATE or DELETE
\* touches the rows its statement saw (st.ids), which it holds locked until
\* the transaction ends.
ApplyStmt(g, st) ==
    CASE st.kind = "insert" ->
           [i \in DOMAIN g \cup st.ids |-> IF i \in st.ids THEN st.row ELSE g[i]]
      [] st.kind = "update" ->
           [i \in DOMAIN g |-> IF i \in st.ids THEN UpdateRow(g[i], st.good) ELSE g[i]]
      [] st.kind = "reprioritize" ->
           [i \in DOMAIN g |-> IF i \in st.ids THEN ReprioritizeRow(g[i], st.p) ELSE g[i]]
      [] st.kind = "delete" ->
           [i \in DOMAIN g \ st.ids |-> g[i]]

(* ------------------------------- cache --------------------------------- *)

ListKey == <<"goods">>
\* fmt.Sprintf("goods: %d", good.ID) in create, "goods:%d" in update.
CreateKey(id) == <<"goods: ", id>>
UpdateKey(id) == <<"goods:", id>>

CacheKeys == {ListKey} \cup {CreateKey(b.id) : b \in CreateBodies}
                       \cup {UpdateKey(b.id) : b \in UpdateBodies}

\* redisClient.Set(ctx, key, value, expiration)
CacheEntry(value, expiration) == [t |-> "entry", val |-> value, ttl |-> expiration]

(* ----------------------------- processes ------------------------------- *)

IdleProc ==
    [pc |-> "idle", op |-> "none", body |-> None, good |-> None, np |-> 0,
     maxPriority |-> 0, tx |-> None, committed |-> FALSE, raced |-> FALSE,
     get |-> "none", cachedGoods |-> None, queried |-> FALSE, list |-> {},
     set |-> None, setOk |-> FALSE, pub |-> None, pubOk |-> FALSE,
     at |-> "none", resp |-> None]

Init ==
    /\ goods = <<>>
    /\ nextId = 1
    /\ cache = [k \in CacheKeys |-> None]
    /\ proc = [p \in Procs |-> IdleProc]
    /\ created = [ever |-> {}, run |-> {}]

Free(p) == proc[p].pc \in {"idle", "done"}

\* The handler returns: the response is written and the request is over
\* (at keeps the call the handler returned from).
Return(p, fields, response) ==
    proc' = [proc EXCEPT ![p] = [fields EXCEPT !.pc = "done", !.at = fields.pc,
                                               !.resp = response]]

Goto(p, fields, label) ==
    proc' = [proc EXCEPT ![p] = [fields EXCEPT !.pc = label]]

\* A fresh request of handler op, entering at label.
Enter(p, op, label) == [IdleProc EXCEPT !.op = op, !.pc = label]

At(p, op, label) == proc[p].op = op /\ proc[p].pc = label

\* Requests that will still execute an INSERT.
PendingInserts ==
    {q \in Procs : proc[q].op = "create" /\ proc[q].pc \in {"max", "begin", "exec"}}

(* ------------------------- createGoodHandler --------------------------- *)

\* Lines 108-113: decode the body; 400 on a body that does not decode.
createDecode(p) ==
    /\ Free(p)
    /\ nextId + Cardinality(PendingInserts) <= MaxInserts
    /\ \E body \in CreateBodies \cup {Malformed} :
         IF body = Malformed
         THEN Return(p, Enter(p, "create", "decode"), httpError(StatusBadRequest))
         ELSE proc' = [proc EXCEPT ![p] =
                         [Enter(p, "create", "max") EXCEPT !.body = body, !.good = body]]
    /\ UNCHANGED <<goods, nextId, cache, created>>

\* Faulty variant: the maximum itself taken for the new priority.
NextPriority_same(maxPriority) == maxPriority

\* good.Priority = int(maxPriority) + 1
NextPriority(maxPriority) == maxPriority + 1

\* Lines 115-121: read the maximum priority, outside any transaction, and
\* overwrite the submitted priority with it plus one.
createMax(p) ==
    /\ At(p, "create", "max")
    /\ \E ok \in BOOLEAN :
         IF ok
         THEN LET m == maxGoodsPriority(goods)
              IN  Goto(p, [proc[p] EXCEPT !.maxPriority = m,
                                          !.good.priority = NextPriority(m),
                                          !.queried = TRUE,
                                          !.raced = FALSE], "begin")
         ELSE Return(p, proc[p], httpError(StatusInternalServerError))
    /\ UNCHANGED <<goods, nextId, cache, created>>

(* ------------------------- updateGoodHandler --------------------------- *)

\* Lines 213-218.
updateDecode(p) ==
    /\ Free(p)
    /\ \E body \in UpdateBodies \cup {Malformed} :
         IF body = Malformed
         THEN Return(p, Enter(p, "update", "decode"), httpError(StatusBadRequest))
         ELSE proc' = [proc EXCEPT ![p] =
                         [Enter(p, "update", "begin")
                            EXCEPT !.body = body, !.good = body]]
    /\ UNCHANGED <<goods, nextId, cache, created>>

(* ------------------------- removeGoodHandler --------------------------- *)

\* The handler reads nothing from the request: it starts at db.Begin().
removeStart(p) ==
    /\ Free(p)
    /\ proc' = [proc EXCEPT ![p] = Enter(p, "delete", "begin")]
    /\ UNCHANGED <<goods, nextId, cache, created>>

(* ---------------------- reprioritizeGoodHandler ------------------------ *)

\* Lines 288-294; var good Goods stays the zero value.
reprioritizeDecode(p) ==
    /\ Free(p)
    /\ \E body \in PriorityBodies \cup {Malformed} :
         IF body = Malformed
         THEN Return(p, Enter(p, "reprioritize", "decode"), httpError(StatusBadRequest))
         ELSE proc' = [proc EXCEPT ![p] =
                         [Enter(p, "reprioritize", "begin")
                            EXCEPT !.body = body, !.np = body.newPriority]]
    /\ UNCHANGED <<goods, nextId, cache, created>>

(* ------------------- the transaction of a mutation --------------------- *)

Mutating(p) == proc[p].op \in {"create", "update", "delete", "reprioritize"}

\* tx, err := db.Begin()
txBegin(p) ==
    /\ Mutating(p) /\ proc[p].pc = "begin"
    /\ \E ok \in BOOLEAN :
         IF ok THEN Goto(p, proc[p], "exec")
               ELSE Return(p, proc[p], httpError(StatusInternalServerError))
    /\ UNCHANGED <<goods, nextId, cache, created>>

\* Faulty variant: update, reprioritize and delete scoped to one row by a WHERE id.
Statement_scoped(p) ==
    LET one == {i \in DOMAIN goods : \A j \in DOMAIN goods : i <= j}
    IN  CASE proc[p].op = "create" -> InsertStmt(proc[p].good, nextId)
          [] proc[p].op = "update" ->
               [kind |-> "update", ids |-> one, good |-> proc[p].good]
          [] proc[p].op = "reprioritize" ->
               [kind |-> "reprioritize", ids |-> one, p |-> proc[p].np]
          [] proc[p].op = "delete" ->
               [kind |-> "delete", ids |-> one]

\* The statement each handler hands to tx.Exec.
Statement(p) ==
    CASE proc[p].op = "create" -> InsertStmt(proc[p].good, nextId)
      [] proc[p].op = "update" ->
           [kind |-> "update", ids |-> DOMAIN goods, good |-> proc[p].good]
      [] proc[p].op = "reprioritize" ->
           [kind |-> "reprioritize", ids |-> DOMAIN goods, p |-> proc[p].np]
      [] proc[p].op = "delete" ->
           [kind |-> "delete", ids |-> DOMAIN goods]

\* Rows another open transaction has written and still holds locked.
LockedBy(q) ==
    IF proc[q].tx # None /\ proc[q].tx.kind # "insert" THEN proc[q].tx.ids ELSE {}

\* Faulty variant: the id of the inserted row read back into the good variable.
AfterExec_scanId(p, st) ==
    IF st.kind = "insert"
    THEN [proc[p] EXCEPT !.tx = st, !.good.id = st.row.id]
    ELSE [proc[p] EXCEPT !.tx = st]

\* The handler's locals once tx.Exec returned without error: the result of
\* Exec is discarded (_), so nothing of the new row reaches the good variable.
AfterExec(p, st) == [proc[p] EXCEPT !.tx = st]

\* tx.Exec: the statement runs inside the transaction, its effect pending
\* until Commit.  An UPDATE or DELETE waits for rows locked by another open
\* transaction; an INSERT draws its id from the sequence at once.  On error
\* the deferred tx.Rollback() discards the transaction.
txExec(p) ==
    /\ Mutating(p) /\ proc[p].pc = "exec"
    /\ \E ok \in BOOLEAN :
         IF ok
         THEN /\ proc[p].op # "create" =>
                   \A q \in Procs \ {p} : LockedBy(q) \cap DOMAIN goods = {}
              /\ Goto(p, AfterExec(p, Statement(p)), "commit")
              /\ nextId' = IF proc[p].op = "create" THEN nextId + 1 ELSE nextId
         ELSE /\ Return(p, proc[p], httpError(StatusInternalServerError))
              /\ nextId' = nextId
    /\ UNCHANGED <<goods, cache, created>>

\* Where each handler continues after a successful Commit.
AfterCommit(p) == IF proc[p].op \in {"create", "update"} THEN "set" ELSE "publish"

\* History of the committed statements: the priorities creates have stored,
\* ever and since the last committed update, delete or reprioritize.
Record(h, st) ==
    IF st.kind = "insert"
    THEN [ever |-> h.ever \cup {st.row.priority}, run |-> h.run \cup {st.row.priority}]
    ELSE [ever |-> h.ever, run |-> {}]

\* Faulty variant: a failed Commit leaves the statement's effect in the table.
txCommit_noRollback(p) ==
    /\ Mutating(p) /\ proc[p].pc = "commit"
    /\ \E ok \in BOOLEAN :
         /\ goods' = ApplyStmt(goods, proc[p].tx)
         /\ created' = Record(created, proc[p].tx)
         /\ IF ok
            THEN proc' = [q \in Procs |->
                            IF q = p
                            THEN [proc[p] EXCEPT !.tx = None, !.committed = TRUE,
                                                 !.pc = AfterCommit(p)]
                            ELSE [proc[q] EXCEPT !.raced = TRUE]]
            ELSE Return(p, [proc[p] EXCEPT !.tx = None],
                        httpError(StatusInternalServerError))
    /\ UNCHANGED <<nextId, cache>>

\* tx.Commit(): on success the pending statement becomes visible at once and
\* as a whole; on error the deferred Rollback discards it.
txCommit(p) ==
    /\ Mutating(p) /\ proc[p].pc = "commit"
    /\ \E ok \in BOOLEAN :
         IF ok
         THEN /\ goods' = ApplyStmt(goods, proc[p].tx)
              /\ proc' = [q \in Procs |->
                            IF q = p
                            THEN [proc[p] EXCEPT !.tx = None, !.committed = TRUE,
                                                 !.pc = AfterCommit(p)]
                            ELSE [proc[q] EXCEPT !.raced = TRUE]]
              /\ created' = Record(created, proc[p].tx)
         ELSE /\ goods' = goods
              /\ Return(p, [proc[p] EXCEPT !.tx = None],
                        httpError(StatusInternalServerError))
              /\ created' = created
    /\ UNCHANGED <<nextId, cache>>

(* --------------------------- listGoodsHandler -------------------------- *)

\* Faulty variant: a cached value that does not parse is answered with an error.
listCacheGet_failOnGarbage(p) ==
    /\ Free(p)
    /\ \E ok \in BOOLEAN :
         LET e == cache[ListKey]
             r == Enter(p, "list", "get")
         IN  IF ~ok THEN Goto(p, [r EXCEPT !.get = "error"], "query")
             ELSE IF e = None THEN Goto(p, [r EXCEPT !.get = "miss"], "query")
             ELSE IF ~Parseable(e.val)
                  THEN Return(p, [r EXCEPT !.get = "unparseable",
                                           !.cachedGoods = e.val],
                              httpError(StatusInternalServerError))
             ELSE Return(p, [r EXCEPT !.get = "hit", !.cachedGoods = e.val,
                                      !.list = UnmarshalGoods(e.val)],
                         respondWithJSON(StatusOK, MarshalGoods(UnmarshalGoods(e.val))))
    /\ UNCHANGED <<goods, nextId, cache, created>>

\* Lines 163-170: a cached value that parses is decoded and sent back; an
\* error of the Get (key absent or expired, cache unreachable) or of the
\* Unmarshal falls through to the store.
listCacheGet(p) ==
    /\ Free(p)
    /\ \E ok \in BOOLEAN :
         LET e == cache[ListKey]
             r == Enter(p, "list", "get")
         IN  IF ~ok THEN Goto(p, [r EXCEPT !.get = "error"], "query")
             ELSE IF e = None THEN Goto(p, [r EXCEPT !.get = "miss"], "query")
             ELSE IF ~Parseable(e.val)
                  THEN Goto(p, [r EXCEPT !.get = "unparseable",
                                         !.cachedGoods = e.val], "query")
             ELSE Return(p, [r EXCEPT !.get = "hit", !.cachedGoods = e.val,
                                      !.list = UnmarshalGoods(e.val)],
                         respondWithJSON(StatusOK, MarshalGoods(UnmarshalGoods(e.val))))
    /\ UNCHANGED <<goods, nextId, cache, created>>

\* Lines 172-192: SELECT ... FROM goods and scan the rows.
listQuery(p) ==
    /\ At(p, "list", "query")
    /\ \E ok \in BOOLEAN :
         IF ok
         THEN Goto(p, [proc[p] EXCEPT !.list = SelectGoods(goods),
                                      !.queried = TRUE], "set")
         ELSE Return(p, [proc[p] EXCEPT !.queried = TRUE],
                     httpError(StatusInternalServerError))
    /\ UNCHANGED <<goods, nextId, cache, created>>

(* ------------------------- cache write-through ------------------------- *)

\* The redisClient.Set call of each handler: key and value.
SetKey(p) ==
    CASE proc[p].op = "create" -> CreateKey(proc[p].good.id)
      [] proc[p].op = "update" -> UpdateKey(proc[p].good.id)
      [] proc[p].op = "list"   -> ListKey

SetValue(p) ==
    IF proc[p].op = "list" THEN MarshalGoods(proc[p].list)
                           ELSE MarshalGood(proc[p].good)

\* Faulty variant: an error of the Set is answered with 500.
cacheSet_failsRequest(p) ==
    /\ proc[p].op \in {"create", "update", "list"} /\ proc[p].pc = "set"
    /\ \E ok \in BOOLEAN :
         LET entry == CacheEntry(SetValue(p), redisCacheTime)
             r     == [proc[p] EXCEPT !.set = [key |-> SetKey(p), entry |-> entry],
                                      !.setOk = ok]
         IN  /\ cache' = IF ok THEN [cache EXCEPT ![SetKey(p)] = entry] ELSE cache
             /\ IF ok THEN Goto(p, r, "publish")
                      ELSE Return(p, r, httpError(StatusInternalServerError))
    /\ UNCHANGED <<goods, nextId, created>>

\* redisClient.Set(...): the result is discarded, so the handler goes on
\* the same way whether the cache took the value or not.
cacheSet(p) ==
    /\ proc[p].op \in {"create", "update", "list"} /\ proc[p].pc = "set"
    /\ \E ok \in BOOLEAN :
         LET entry == CacheEntry(SetValue(p), redisCacheTime)
         IN  /\ cache' = IF ok THEN [cache EXCEPT ![SetKey(p)] = entry] ELSE cache
             /\ Goto(p, [proc[p] EXCEPT !.set = [key |-> SetKey(p), entry |-> entry],
                                        !.setOk = ok], "publish")
    /\ UNCHANGED <<goods, nextId, created>>

(* --------------------- notification and response ----------------------- *)

\* natsConn.Publish(topic, payload) of each handler.
Notification(p) ==
    CASE proc[p].op = "create" ->
           [topic |-> "new_good_created", payload |-> MarshalGood(proc[p].good)]
      [] proc[p].op = "update" ->
           [topic |-> "good_updated", payload |-> MarshalGood(proc[p].good)]
      [] proc[p].op = "list" ->
           [topic |-> "list_goods",
            payload |-> [t |-> "text", v |-> <<"Goods list", proc[p].list>>]]
      [] proc[p].op = "delete" ->
           [topic |-> "good_deleted", payload |-> [t |-> "text", v |-> "Goods with deleted"]]
      [] proc[p].op = "reprioritize" ->
           [topic |-> "good_reprioritized",
            payload |-> [t |-> "text", v |-> <<"Goods reprioritized to", proc[p].np>>]]

\* The response each handler writes once the publish succeeded.
Response(p) ==
    CASE proc[p].op = "create" ->
           respondWithJSON(StatusCreated, MarshalGood(proc[p].good))
      [] proc[p].op = "update" ->
           respondWithJSON(StatusOK, MarshalGood(proc[p].good))
      [] proc[p].op = "list" ->
           respondWithJSON(StatusOK, MarshalGoods(proc[p].list))
      [] proc[p].op = "delete" ->
           [status |-> StatusNoContent, body |-> [t |-> "text", v |-> ""]]
      [] proc[p].op = "reprioritize" ->
           respondWithJSON(StatusOK,
               [t |-> "obj",
                v |-> [priorities |-> {[id |-> 0, priority |-> proc[p].np]}]])

\* Faulty variant: the publish error is dropped and the request answered as if the
\* notification had gone out.
publish_ignoresError(p) ==
    /\ proc[p].pc = "publish"
    /\ \E ok \in BOOLEAN :
         Return(p, [proc[p] EXCEPT !.pub = IF ok THEN Notification(p) ELSE None,
                                   !.pubOk = ok], Response(p))
    /\ UNCHANGED <<goods, nextId, cache, created>>

\* Publish, then respond: a publish error is answered with 500 and nothing
\* else is done.
publish(p) ==
    /\ proc[p].pc = "publish"
    /\ \E ok \in BOOLEAN :
         IF ok
         THEN Return(p, [proc[p] EXCEPT !.pub = Notification(p), !.pubOk = TRUE],
                     Response(p))
         ELSE Return(p, proc[p], httpError(StatusInternalServerError))
    /\ UNCHANGED <<goods, nextId, cache, created>>

(* ---------------------------- environment ------------------------------ *)

\* A key written with an expiration disappears when its time is up.
cacheExpire ==
    /\ \E k \in CacheKeys :
         /\ cache[k] # None /\ cache[k].ttl > 0
         /\ cache' = [cache EXCEPT ![k] = None]
    /\ UNCHANGED <<goods, nextId, proc, created>>

\* Another client of the cache leaves a value under "goods" that does not
\* parse as a list of goods.
cacheCorrupt ==
    /\ cache[ListKey] # CacheEntry(Garbage, 0)
    /\ cache' = [cache EXCEPT ![ListKey] = CacheEntry(Garbage, 0)]
    /\ UNCHANGED <<goods, nextId, proc, created>>

(* --------------------------- specifications ---------------------------- *)

\* One step of a request in any of the five handlers.
Step(p) ==
    \/ createDecode(p)
    \/ createMax(p)
    \/ updateDecode(p)
    \/ removeStart(p)
    \/ reprioritizeDecode(p)
    \/ txBegin(p)
    \/ txExec(p)
    \/ txCommit(p)
    \/ listCacheGet(p)
    \/ listQuery(p)
    \/ cacheSet(p)
    \/ publish(p)

Solo == CHOOSE p \in Procs : TRUE

\* Requests handled one after another: each starts when the one before it
\* has been answered.  The cache expires and is written by others meanwhile.
Next == Step(Solo) \/ cacheExpire \/ cacheCorrupt

Spec == Init /\ [][Next]_vars

\* One step of a create or of a delete request.
RaceStep(p) ==
    \/ createDecode(p)
    \/ createMax(p)
    \/ removeStart(p)
    \/ txBegin(p)
    \/ txExec(p)
    \/ txCommit(p)
    \/ cacheSet(p)
    \/ publish(p)

\* Create and delete requests handled concurrently, one goroutine each,
\* interleaving at every call to the store, the cache and the publisher.
RaceNext == \E p \in Procs : RaceStep(p)

RaceSpec == Init /\ [][RaceNext]_vars

(* ------------------------------ properties ----------------------------- *)

Done(p) == proc[p].pc = "done"

Status(p) == proc[p].resp.status

\* The value a JSON response body carries in its one-element array.
Carried(p) == CHOOSE x \in proc[p].resp.body.v : TRUE

\* A request of handler op that got past its Commit.
Committed(p, op) == proc[p].op = op /\ proc[p].committed

\* The step in which request p commits its transaction.
Commits(p) == proc[p].pc = "commit" /\ proc'[p].committed

\* The row a create that has executed its INSERT put into the table: the
\* id sequence has moved one past it.
NewId == nextId - 1

Others(g, id) == {g[i].priority : i \in DOMAIN g \ {id}}

\* The maximum of a set of priorities, 0 for the empty set.
Highest(S) == IF S = {} THEN 0 ELSE CHOOSE x \in S : \A y \in S : y <= x

\* C1: a create answered after its commit has stored max(priorities of the
\* goods that existed) + 1 (0 + 1 on an empty table) whatever priority the
\* body submitted, and a 201 response carries that stored priority.
C1_CreatePriority ==
    \A p \in Procs :
        Done(p) /\ Committed(p, "create") =>
            /\ NewId \in DOMAIN goods
            /\ goods[NewId].priority = Highest(Others(goods, NewId)) + 1
            /\ Status(p) = StatusCreated =>
                   Carried(p).v.priority = goods[NewId].priority

\* A body submitting priority 5 was created as the second good and was
\* stored and answered with priority 2.
C1_Witness ==
    \E p \in Procs :
        /\ Done(p) /\ Committed(p, "create") /\ Status(p) = StatusCreated
        /\ proc[p].body = Gadget
        /\ DOMAIN goods = {1, 2}
        /\ goods[1].priority = 1 /\ goods[2].priority = 2
        /\ Carried(p).v.priority = 2

\* C2: the commit of an update gives every row the submitted name,
\* description, priority and removed; the commit of a delete leaves the
\* table empty; the commit of a reprioritize gives every row the new
\* priority and changes nothing else of any row.
C2_EveryRow ==
    [][\A p \in Procs : Commits(p) =>
         CASE proc[p].op = "update" ->
                /\ DOMAIN goods' = DOMAIN goods
                /\ \A i \in DOMAIN goods :
                     goods'[i] = [goods[i] EXCEPT
                                    !.name = proc[p].body.name,
                                    !.description = proc[p].body.description,
                                    !.priority = proc[p].body.priority,
                                    !.removed = proc[p].body.removed]
           [] proc[p].op = "delete" -> DOMAIN goods' = {}
           [] proc[p].op = "reprioritize" ->
                /\ DOMAIN goods' = DOMAIN goods
                /\ \A i \in DOMAIN goods :
                     goods'[i] = [goods[i] EXCEPT !.priority = proc[p].body.newPriority]
           [] OTHER -> TRUE]_vars

\* Two goods created with priorities 1 and 2 and different names both hold
\* priority 5 after a reprioritize to 5.
C2_Witness ==
    \E p \in Procs :
        /\ Done(p) /\ Committed(p, "reprioritize") /\ Status(p) = StatusOK
        /\ created.ever = {1, 2}
        /\ DOMAIN goods = {1, 2}
        /\ goods[1].priority = 5 /\ goods[2].priority = 5
        /\ goods[1].name # goods[2].name

\* C3: once a request has committed, no later step of it touches the table,
\* and a publish that fails then is answered with 500: the table stays what
\* the commit made it, the same as when the publish succeeds.
C3_PublishFailure ==
    [][\A p \in Procs :
         proc[p].committed /\ ~Done(p) =>
             /\ goods' = goods
             /\ proc'[p].pc = "done" /\ ~proc'[p].pubOk =>
                    proc'[p].resp = httpError(StatusInternalServerError)]_vars

\* A create was answered 500 because its publish failed, and its row is in
\* the table.
C3_Witness ==
    \E p \in Procs :
        /\ Done(p) /\ Committed(p, "create") /\ ~proc[p].pubOk
        /\ Status(p) = StatusInternalServerError
        /\ NewId \in DOMAIN goods
        /\ goods[NewId].name = proc[p].body.name

\* The goods in the table and their JSON encoding as a list.
Rows == {goods[i] : i \in DOMAIN goods}

ListDoc(rows) == IF rows = {} THEN [t |-> "null", v |-> {}]
                              ELSE [t |-> "arr", v |-> rows]

Answered(p, op) == Done(p) /\ proc[p].op = op

\* C4: a list that finds a parseable value under "goods" answers 200 with
\* exactly that payload as its body and neither queries the store nor
\* publishes nor sets; a list that read the store has set "goods" to the
\* list it read, with a one-minute expiration.
C4_CachedVerbatim ==
    \A p \in Procs :
        Answered(p, "list") =>
            /\ proc[p].get = "hit" =>
                   /\ ~proc[p].queried /\ proc[p].pub = None /\ proc[p].set = None
                   /\ proc[p].resp = [status |-> StatusOK, body |-> proc[p].cachedGoods]
            /\ proc[p].get # "hit" /\ proc[p].at # "query" =>
                   proc[p].set = [key |-> ListKey,
                                  entry |-> CacheEntry(ListDoc(proc[p].list),
                                                       redisCacheTime)]

C6_GetFailureSameOutcome ==
    [][\A p \in Procs :
         /\ Free(p) /\ proc'[p].pc = "query" /\ proc'[p].get = "error"
         /\ cache[ListKey] # None
         => (Parseable(cache[ListKey].val) => cache[ListKey].val = ListDoc(Rows))]_vars

\* What create and update answer after a successful publish.
Echo(p) ==
    IF proc[p].op = "create"
    THEN respondWithJSON(StatusCreated,
             [t |-> "obj", v |-> [proc[p].body EXCEPT !.priority = goods[NewId].priority]])
    ELSE respondWithJSON(StatusOK, [t |-> "obj", v |-> proc[p].body])

\* C6 amended: whether a Set succeeds or fails, create, update and list go on
\* to publish and answer by the publish alone; a list whose Get fails goes on
\* to the store like one that misses, and answers by the store and the
\* publish alone (200 with the store's goods, or 500).
C6_CacheFailures ==
    \A p \in Procs :
        /\ Done(p) /\ proc[p].set # None =>
               /\ proc[p].at = "publish"
               /\ proc[p].op \in {"create", "update"} =>
                      proc[p].resp = IF proc[p].pubOk
                                     THEN Echo(p)
                                     ELSE httpError(StatusInternalServerError)
        /\ Answered(p, "list") /\ proc[p].get \in {"error", "miss"} =>
               /\ proc[p].queried
               /\ proc[p].resp = IF proc[p].at = "publish" /\ proc[p].pubOk
                                 THEN respondWithJSON(StatusOK, ListDoc(Rows))
                                 ELSE httpError(StatusInternalServerError)

\* A list whose Get failed and whose Set failed answered 200 with the goods
\* of the table.
C6_Witness ==
    \E p \in Procs :
        /\ Answered(p, "list") /\ proc[p].get = "error"
        /\ proc[p].set # None /\ ~proc[p].setOk
        /\ Status(p) = StatusOK
        /\ Rows # {}
        /\ Carried(p) = ListDoc(Rows)

\* C7: the table changes only in the step in which a request commits; a
\* mutating handler that returns from Begin, Exec or Commit answers 500,
\* leaves table and cache as they are, and has set no key and published
\* nothing.
C7_StoreFailure ==
    [][/\ goods' # goods => \E p \in Procs : Commits(p)
       /\ \A p \in Procs :
            Mutating(p) /\ proc[p].pc \in {"begin", "exec", "commit"}
                        /\ proc'[p].pc = "done" =>
                /\ goods' = goods /\ cache' = cache
                /\ proc'[p].resp = httpError(StatusInternalServerError)
                /\ ~proc'[p].committed
                /\ proc'[p].set = None /\ proc'[p].pub = None]_vars

\* An update whose Commit failed was answered 500 and the good in the table
\* still carries the name it was created with.
C7_Witness ==
    \E p \in Procs :
        /\ Answered(p, "update") /\ proc[p].at = "commit"
        /\ Status(p) = StatusInternalServerError
        /\ proc[p].body.name = "Gadget"
        /\ \E i \in DOMAIN goods : goods[i].name = "Widget"

Stored(p) == proc[p].tx.row.priority

\* C9 as stated: a create that commits stores a priority greater than the
\* priority stored by every earlier committed create.
C9_Monotonic ==
    [][\A p \in Procs :
         Commits(p) /\ proc[p].op = "create" =>
             \A x \in created.ever : Stored(p) > x]_vars

\* C9 amended: with requests handled one after another, a create that
\* commits stores a priority greater than that of every good in the table,
\* and greater than the priority stored by every earlier create since the
\* last committed update, delete or reprioritize.
C9_MonotonicRun ==
    [][\A p \in Procs :
         Commits(p) /\ proc[p].op = "create" =>
             /\ \A i \in DOMAIN goods : Stored(p) > goods[i].priority
             /\ \A x \in created.run : Stored(p) > x]_vars

\* Two creates in a row stored priorities 1 and 2, and both goods are in
\* the table.
C9_Witness ==
    /\ created.run = {1, 2}
    /\ {goods[i].priority : i \in DOMAIN goods} = {1, 2}
    /\ \E p \in Procs : Answered(p, "create") /\ proc[p].committed

\* C10: a create that commits with no commit of another request since it
\* read the maximum stores a priority no good of the table holds.
C10_NoDuplicateUnlessRaced ==
    [][\A p \in Procs :
         Commits(p) /\ proc[p].op = "create" /\ ~proc[p].raced =>
             \A i \in DOMAIN goods : goods[i].priority # Stored(p)]_vars

\* Two creates read the same maximum before either inserted, both were
\* answered 201 with the same priority, and the table holds two goods with
\* that priority.
C10_Witness ==
    \E p, q \in Procs :
        /\ p # q
        /\ Answered(p, "create") /\ Status(p) = StatusCreated
        /\ Answered(q, "create") /\ Status(q) = StatusCreated
        /\ proc[p].maxPriority = proc[q].maxPriority
        /\ proc[q].raced
        /\ \E i, j \in DOMAIN goods :
             /\ i # j
             /\ goods[i].priority = proc[p].good.priority
             /\ goods[j].priority = proc[p].good.priority

====
